---- MODULE Spec2Model ----
(***************************************************************************)
(* Model of packages/termui/src/index.ts of vue-termui: the renderer host  *)
(* adapter (node tree + layout handles) and the app lifecycle controller   *)
(* (mount / unmount / waitUntilExit / process-exit handler).               *)
(*                                                                         *)
(* Node ids are 1..MaxNodes, 0 stands for null.  Node 1 is the root        *)
(* container.  The layout handle owned by node n is named n as well;       *)
(* yogaNode[n] is n or 0.                                                  *)
(***************************************************************************)
EXTENDS Integers, Sequences, FiniteSets, TLC

\* ---------------------------------------------------------------- bounds
MaxNodes == 4
MaxKids == 2
MaxMoves == 1
MaxMoveNodes == 3
MaxResize == 2
MaxCount == 2
MaxTextNodes == 4
MaxPropNodes == 2
MaxReadNodes == 3
MaxPaintNodes == 2
MaxLines == 1

NodeIds == 1..MaxNodes
Root == 1
Texts == {"a", "b"}

\* exit codes and signals of a termination notification; NullCode and
\* NoSignal stand for null
NullCode == 0 - 1
NoSignal == "null"
Notifications ==
  {<<NullCode, "SIGINT">>, <<NullCode, "SIGTERM">>, <<0, NoSignal>>,
   <<1, NoSignal>>}

VARIABLES
  nodeName,      \* node -> "" (not created yet) | tag | "#text" | "#comment"
  nodeValue,     \* node -> text of a text or comment node ("" for elements)
  parentNode,    \* node -> parent node id or 0
  childNodes,    \* node -> sequence of child node ids
  yogaNode,      \* node -> its layout handle (the node id) or 0
  yChildren,     \* layout handle -> sequence of child layout handles
  yFreed,        \* set of layout handles that were freed
  yMeasure,      \* set of layout handles with a measurement callback
  moves,         \* number of insert calls made on an attached node
  style,         \* node -> its style object, "none" when never set
  internal_transform, \* node -> its rendering transform, "none" when never set
  yStyle,        \* layout handle -> the style applied to it, "none" at first
  op,            \* the last operation called, with its arguments and result
  out,           \* what the last operation wrote: <<stream, text>> entries
  prevLineCount, \* the repaint engine's previous line count
  optWait,       \* the waitUntilExit construction option
  intervalSet,   \* `interval` holds a timer object
  intervalActive,\* the keep-alive timer is running
  exitListeners, \* number of registrations of the onExit callback
  isMounted,     \* the base app is mounted
  cursorHidden,  \* cli-cursor state of stdout
  resizeSubs,    \* number of onResize subscriptions on stdout
  logDone,       \* log.done() was called
  promises,      \* handle id -> [state, error] of each promise created
  exitPromise,   \* `exitPromise`: handle id or 0 (undefined)
  resolveTarget, \* handle that resolve/rejectExitPromise settle, 0 = noop
  returned,      \* set of handles returned by waitUntilExit() so far
  waitCalls,     \* number of waitUntilExit() calls, up to MaxCount
  unmountCalls,  \* number of newApp.unmount() calls, up to MaxCount
  notified       \* number of termination notifications, up to MaxCount

propVars == <<style, internal_transform, yStyle>>
treeVars == <<nodeName, nodeValue, parentNode, childNodes, yogaNode, yChildren,
              yFreed, yMeasure, moves, style, internal_transform, yStyle>>
appVars == <<optWait, intervalSet, intervalActive, exitListeners, isMounted,
             cursorHidden, resizeSubs, logDone, promises, exitPromise,
             resolveTarget, returned, waitCalls, unmountCalls, notified,
             prevLineCount>>
vars == <<nodeName, nodeValue, parentNode, childNodes, yogaNode, yChildren,
          yFreed, yMeasure, moves, style, internal_transform, yStyle, op, out,
          optWait, intervalSet, intervalActive, exitListeners, isMounted,
          cursorHidden, resizeSubs, logDone, promises, exitPromise,
          resolveTarget, returned, waitCalls, unmountCalls, notified,
          prevLineCount>>

\* ------------------------------------------------------- sequence helpers
\* Array.prototype.indexOf, 1-based; 0 stands for -1
IndexOf(seq, x) ==
  IF \E i \in 1..Len(seq) : seq[i] = x
  THEN CHOOSE i \in 1..Len(seq) : seq[i] = x /\ \A j \in 1..(i - 1) : seq[j] # x
  ELSE 0

\* Array.prototype.splice(i, 1), 1-based
SpliceOut(seq, i) == SubSeq(seq, 1, i - 1) \o SubSeq(seq, i + 1, Len(seq))

\* Array.prototype.splice(i, 0, x), 1-based
SpliceIn(seq, i, x) == SubSeq(seq, 1, i - 1) \o <<x>> \o SubSeq(seq, i, Len(seq))

Range(seq) == {seq[i] : i \in 1..Len(seq)}

Count(seq, x) == Cardinality({i \in 1..Len(seq) : seq[i] = x})

\* position of the first occurrence of event e in trace t, 0 when absent
Pos(t, e) == IndexOf(t, e)

\* event a occurs in t, and before event b when b occurs
Precedes(t, a, b) == Pos(t, a) > 0 /\ (Pos(t, b) > 0 => Pos(t, a) < Pos(t, b))

Bump(n) == IF n < MaxCount THEN n + 1 ELSE n

\* ------------------------------------------------------------ tree state
\* the part of the state removeNode and insertNode work on, as one record;
\* trace collects the sub-steps of the call in execution order, uafThrows is
\* the outcome the layout engine has for a call on a freed handle in this
\* call (an exception, or nothing), thrown tells the call was aborted
Dom(uaf) ==
  [parentNode |-> parentNode, childNodes |-> childNodes, yogaNode |-> yogaNode,
   yChildren |-> yChildren, yFreed |-> yFreed, yMeasure |-> yMeasure,
   trace |-> <<>>, uafThrows |-> uaf, thrown |-> FALSE]

IsElement(n) == nodeName[n] # "#comment" /\ nodeName[n] # "#text"

Created == {n \in NodeIds : nodeName[n] # ""}

\* nodes reachable from the frontier through child sequences
RECURSIVE ReachFrom(_, _, _)
ReachFrom(kids, frontier, seen) ==
  LET next == (UNION {Range(kids[m]) : m \in frontier}) \ seen
  IN IF next = {} THEN seen ELSE ReachFrom(kids, next, seen \cup next)

Descendants(kids, n) == ReachFrom(kids, {n}, {})

\* layout handles reachable from h through layout child sequences, h included
YSubtree(yk, h) == {h} \cup ReachFrom(yk, {h}, {})

\* ------------------------------------------------- layout engine (yoga)
\* a call on the layout engine: on a freed handle it is a use after free,
\* which either throws or goes on, as the call's uafThrows tells
YogaCall(s, event, onFreed, after) ==
  IF s.thrown THEN s
  ELSE IF onFreed /\ s.uafThrows
       THEN [s EXCEPT !.trace = Append(@, event), !.thrown = TRUE]
       ELSE [after EXCEPT !.trace = Append(@, event)]

\* YogaNode.removeChild(child) on handle p
yogaRemoveChild(s, p, c) ==
  LET i == IndexOf(s.yChildren[p], c)
      onFreed == p \in s.yFreed \/ c \in s.yFreed
  IN YogaCall(s, <<"removeChild", p, c, onFreed>>, onFreed,
              [s EXCEPT !.yChildren[p] = IF i > 0 THEN SpliceOut(@, i) ELSE @])

\* YogaNode.unsetMeasureFunc()
yogaUnsetMeasureFunc(s, h) ==
  YogaCall(s, <<"unsetMeasureFunc", h, h \in s.yFreed>>, h \in s.yFreed,
           [s EXCEPT !.yMeasure = @ \ {h}])

\* YogaNode.freeRecursive(): frees the handle and every layout descendant,
\* unlinking each from its owner
yogaFreeRecursive(s, h) ==
  LET sub == YSubtree(s.yChildren, h)
  IN YogaCall(s, <<"freeRecursive", h, h \in s.yFreed>>, h \in s.yFreed,
       [s EXCEPT !.yFreed = @ \cup sub,
                 !.yMeasure = @ \ sub,
                 !.yChildren = [g \in NodeIds |->
                     IF g \in sub THEN <<>>
                     ELSE SelectSeq(s.yChildren[g], LAMBDA x : x \notin sub)]])

\* ------------------------------------------------------------ removeNode
\* lines 29-33: release the layout handle of node, whose parent is p
releaseYoga(s, node, p) ==
  IF s.yogaNode[node] # 0
  THEN LET s1 == IF s.yogaNode[p] # 0
                 THEN yogaRemoveChild(s, s.yogaNode[p], s.yogaNode[node])
                 ELSE s
           s2 == yogaUnsetMeasureFunc(s1, s.yogaNode[node])
       IN yogaFreeRecursive(s2, s.yogaNode[node])
  ELSE s

\* lines 22-37: the part of removeNode after the recursion
detachNode(s, node) ==
  LET p == s.parentNode[node]
  IN IF ~s.thrown /\ p # 0
     THEN LET selfIndex == IndexOf(s.childNodes[p], node)
              s1 == IF selfIndex > 0
                    THEN [s EXCEPT !.childNodes[p] = SpliceOut(@, selfIndex),
                                   !.trace = Append(@, <<"splice", p, node>>)]
                    ELSE s
              s2 == releaseYoga(s1, node, p)
          IN IF s2.thrown THEN s2
             ELSE [s2 EXCEPT !.parentNode[node] = 0,
                             !.trace = Append(@, <<"detach", node>>)]
     ELSE s

RECURSIVE removeNode(_, _)
RECURSIVE mapRemoveNode(_, _, _, _)

\* line 19, node.childNodes.map(removeNode): Array.prototype.map visits the
\* indices 0..len-1 of the length read at the start, skips an index that is
\* no longer present and reads the element of the live array at each index
mapRemoveNode(s, node, k, len) ==
  IF k > len \/ s.thrown THEN s
  ELSE IF k > Len(s.childNodes[node]) THEN mapRemoveNode(s, node, k + 1, len)
  ELSE mapRemoveNode(removeNode(s, s.childNodes[node][k]), node, k + 1, len)

\* lines 16-40
removeNode(s, node) ==
  LET s1 == IF IsElement(node)
            THEN mapRemoveNode(s, node, 1, Len(s.childNodes[node]))
            ELSE s
  IN detachNode(s1, node)

\* ------------------------------------------------------------ insertNode
\* DOMElement.insertNode(el, anchor): before the anchor when the anchor is a
\* child of parent, appended otherwise; sets el's parent; the layout handle
\* of el is linked under the parent's at the mirrored position
insertNode(s, parent, el, anchor) ==
  LET kids == s.childNodes[parent]
      idx == IF anchor # 0 THEN IndexOf(kids, anchor) ELSE 0
      newKids == IF idx > 0 THEN SpliceIn(kids, idx, el) ELSE Append(kids, el)
      before == IF idx > 0 THEN SubSeq(kids, 1, idx - 1) ELSE kids
      linked == s.yogaNode[el] # 0 /\ s.yogaNode[parent] # 0
      yp == s.yogaNode[parent]
      yc == s.yogaNode[el]
      yKids == IF linked THEN s.yChildren[yp] ELSE <<>>
      yIdx == Len(SelectSeq(before, LAMBDA x : s.yogaNode[x] # 0
                                               /\ s.yogaNode[x] \in Range(yKids))) + 1
      s1 == [s EXCEPT !.childNodes[parent] = newKids,
                      !.parentNode[el] = parent,
                      !.trace = Append(@, <<"insertNode", parent, el>>)]
  IN IF linked
     THEN [s1 EXCEPT !.yChildren[yp] = SpliceIn(@, yIdx, yc),
                     !.trace = Append(@, <<"insertChild", yp, yc>>)]
     ELSE s1

\* ----------------------------------------------------------------- Init
\* the tree after mount() has constructed the root container (line 186)
TreeInit ==
  /\ nodeName = [n \in NodeIds |-> IF n = Root THEN "tui-root" ELSE ""]
  /\ nodeValue = [n \in NodeIds |-> ""]
  /\ parentNode = [n \in NodeIds |-> 0]
  /\ childNodes = [n \in NodeIds |-> <<>>]
  /\ yogaNode = [n \in NodeIds |-> IF n = Root THEN Root ELSE 0]
  /\ yChildren = [n \in NodeIds |-> <<>>]
  /\ yFreed = {}
  /\ yMeasure = {}
  /\ moves = 0
  /\ style = [n \in NodeIds |-> "none"]
  /\ internal_transform = [n \in NodeIds |-> "none"]
  /\ yStyle = [n \in NodeIds |-> "none"]
  /\ op = <<"init">>
  /\ out = <<>>

\* ------------------------------------------------------ adapter operations
SetDom(s) ==
  /\ parentNode' = s.parentNode
  /\ childNodes' = s.childNodes
  /\ yogaNode' = s.yogaNode
  /\ yChildren' = s.yChildren
  /\ yFreed' = s.yFreed
  /\ yMeasure' = s.yMeasure

\* the id the next created node gets
FreshNode == Cardinality(Created) + 1

\* createElement(type): a fresh unattached element; whether it owns a layout
\* handle, and whether that handle has a measurement callback, is decided by
\* the DOMElement constructor for the tag
CreateElement(withYoga, withMeasure) ==
  /\ FreshNode <= MaxNodes
  /\ withMeasure => withYoga
  /\ nodeName' = [nodeName EXCEPT ![FreshNode] = "tui-box"]
  /\ yogaNode' = [yogaNode EXCEPT ![FreshNode] = IF withYoga THEN FreshNode ELSE 0]
  /\ yMeasure' = IF withMeasure THEN yMeasure \cup {FreshNode} ELSE yMeasure
  /\ op' = <<"createElement", FreshNode>>
  /\ out' = <<>>
  /\ UNCHANGED propVars
  /\ UNCHANGED <<nodeValue, parentNode, childNodes, yChildren, yFreed, moves>>
  /\ UNCHANGED appVars

\* createText(text)
CreateText(text) ==
  /\ FreshNode <= MaxNodes
  /\ nodeName' = [nodeName EXCEPT ![FreshNode] = "#text"]
  /\ nodeValue' = [nodeValue EXCEPT ![FreshNode] = text]
  /\ op' = <<"createText", FreshNode>>
  /\ out' = <<>>
  /\ UNCHANGED propVars
  /\ UNCHANGED <<parentNode, childNodes, yogaNode, yChildren, yFreed, yMeasure,
                 moves>>
  /\ UNCHANGED appVars

\* createComment(text)
CreateComment(text) ==
  /\ FreshNode <= MaxNodes
  /\ nodeName' = [nodeName EXCEPT ![FreshNode] = "#comment"]
  /\ nodeValue' = [nodeValue EXCEPT ![FreshNode] = text]
  /\ op' = <<"createComment", FreshNode>>
  /\ out' = <<>>
  /\ UNCHANGED propVars
  /\ UNCHANGED <<parentNode, childNodes, yogaNode, yChildren, yFreed, yMeasure,
                 moves>>
  /\ UNCHANGED appVars

\* insert(el, parent, anchor): parent.insertNode(el, anchor).  The reconciler
\* passes an element as parent, never the root container as el and never a
\* node into its own subtree.  An insert of a node that has a parent (a move)
\* is counted.
Insert(el, parent, anchor) ==
  /\ el \in Created /\ parent \in Created /\ anchor \in Created \cup {0}
  /\ IsElement(parent)
  /\ el # parent /\ anchor # el /\ el # Root
  /\ parent \notin Descendants(childNodes, el)
  /\ Len(childNodes[parent]) < MaxKids
  /\ IF parentNode[el] # 0
     THEN moves < MaxMoves /\ moves' = moves + 1
     ELSE moves' = moves
  /\ SetDom(insertNode(Dom(FALSE), parent, el, anchor))
  /\ op' = <<"insert", el>>
  /\ out' = <<>>
  /\ UNCHANGED propVars
  /\ UNCHANGED <<nodeName, nodeValue>>
  /\ UNCHANGED appVars

\* insert of a node that has no parent: the reconciler mounting a node
Attach(el, parent, anchor) ==
  /\ parentNode[el] = 0
  /\ Insert(el, parent, anchor)

\* remove(node): removeNode(node)
Remove(node, uaf) ==
  /\ node \in Created /\ node # Root
  /\ LET s == removeNode(Dom(uaf), node)
     IN /\ SetDom(s)
        /\ op' = <<"remove", node, s.thrown>>
  /\ out' = <<>>
  /\ UNCHANGED propVars
  /\ UNCHANGED <<nodeName, nodeValue, moves>>
  /\ UNCHANGED appVars

\* node.childNodes.find(n => n.nodeName === '#text'): 0 when there is none
FindText(node) ==
  LET kids == childNodes[node]
  IN IF \E i \in 1..Len(kids) : nodeName[kids[i]] = "#text"
     THEN kids[CHOOSE i \in 1..Len(kids) :
                 /\ nodeName[kids[i]] = "#text"
                 /\ \A j \in 1..(i - 1) : nodeName[kids[j]] # "#text"]
     ELSE 0

\* lines 87-94, the body of setElementText(node, text)
setElementText(node, text) ==
  IF FindText(node) # 0
  THEN /\ nodeValue' = [nodeValue EXCEPT ![FindText(node)] = text]
       /\ UNCHANGED <<nodeName, parentNode, childNodes, yogaNode, yChildren,
                      yFreed, yMeasure>>
  ELSE /\ FreshNode <= MaxNodes
       /\ Len(childNodes[node]) < MaxKids
       /\ nodeName' = [nodeName EXCEPT ![FreshNode] = "#text"]
       /\ nodeValue' = [nodeValue EXCEPT ![FreshNode] = text]
       /\ SetDom(insertNode(Dom(FALSE), node, FreshNode, 0))

\* setElementText(node, text)
SetElementText(node, text) ==
  /\ node \in Created /\ IsElement(node)
  /\ setElementText(node, text)
  /\ op' = <<"setElementText", node, text>>
  /\ out' = <<>>
  /\ UNCHANGED propVars
  /\ UNCHANGED moves
  /\ UNCHANGED appVars

\* setText(node, text), lines 96-104.  bound tells whether the caller invokes
\* it as a method of the options object: `this` is that object then, and
\* otherwise (a caller that took the function out of the object) it is not,
\* and `this.setElementText` (line 102) is a TypeError after the console.error
SetText(node, text, bound) ==
  /\ node \in Created
  /\ IF ~IsElement(node)
     THEN /\ bound
          /\ nodeValue' = [nodeValue EXCEPT ![node] = text]
          /\ UNCHANGED <<nodeName, parentNode, childNodes, yogaNode, yChildren,
                         yFreed, yMeasure>>
          /\ out' = <<>>
     ELSE /\ out' = <<<<"stderr", "TODO: setText", 0>>>>
          /\ IF bound
             THEN setElementText(node, text)
             ELSE UNCHANGED <<nodeName, nodeValue, parentNode, childNodes,
                              yogaNode, yChildren, yFreed, yMeasure>>
  /\ op' = <<"setText", node, ~bound, text>>
  /\ UNCHANGED <<moves, propVars>>
  /\ UNCHANGED appVars

\* the keys and values patchProp is called with: the two keys it knows, one
\* it does not, and two values
Keys == {"style", "internal_transform", "id"}
PropValues == {"p", "q"}

\* patchProp with a plain `else` in place of `else if (key ===
\* 'internal_transform')`
PatchPropElseTransform(el, key, next, uaf) ==
  /\ el \in Created /\ el # Root /\ IsElement(el)
  /\ LET h == yogaNode[el]
         onFreed == key = "style" /\ h # 0 /\ h \in yFreed
         thrown == onFreed /\ uaf
     IN /\ uaf => onFreed
        /\ style' = IF key = "style" THEN [style EXCEPT ![el] = next] ELSE style
        /\ yStyle' = IF key = "style" /\ h # 0 /\ ~thrown
                     THEN [yStyle EXCEPT ![h] = next] ELSE yStyle
        /\ internal_transform' =
             IF key # "style"
             THEN [internal_transform EXCEPT ![el] = next]
             ELSE internal_transform
        /\ op' = <<"patchProp", el, key, next, thrown>>
  /\ out' = <<>>
  /\ UNCHANGED <<nodeName, nodeValue, parentNode, childNodes, yogaNode,
                 yChildren, yFreed, yMeasure, moves>>
  /\ UNCHANGED appVars

\* patchProp(el, key, prevValue, nextValue), lines 46-56, on an element the
\* reconciler created.  applyStyles on a handle that was freed is a use after
\* free: it throws (after line 49 stored the style) or goes on, as uaf tells
PatchProp(el, key, next, uaf) ==
  /\ el \in Created /\ el # Root /\ IsElement(el)
  /\ LET h == yogaNode[el]
         onFreed == key = "style" /\ h # 0 /\ h \in yFreed
         thrown == onFreed /\ uaf
     IN /\ uaf => onFreed
        /\ style' = IF key = "style" THEN [style EXCEPT ![el] = next] ELSE style
        /\ yStyle' = IF key = "style" /\ h # 0 /\ ~thrown
                     THEN [yStyle EXCEPT ![h] = next] ELSE yStyle
        /\ internal_transform' =
             IF key = "internal_transform"
             THEN [internal_transform EXCEPT ![el] = next]
             ELSE internal_transform
        /\ op' = <<"patchProp", el, key, next, thrown>>
  /\ out' = <<>>
  /\ UNCHANGED <<nodeName, nodeValue, parentNode, childNodes, yogaNode,
                 yChildren, yFreed, yMeasure, moves>>
  /\ UNCHANGED appVars

\* cloneNode with console.log in place of console.error
CloneNodeLogsToStdout(node) ==
  /\ node \in Created
  /\ op' = <<"cloneNode", node, node>>
  /\ out' = <<<<"stdout", "TODO: clone", 0>>>>
  /\ UNCHANGED treeVars
  /\ UNCHANGED appVars

\* cloneNode(node), lines 105-108: the result is the third field of op
CloneNode(node) ==
  /\ node \in Created
  /\ op' = <<"cloneNode", node, node>>
  /\ out' = <<<<"stderr", "TODO: clone", 0>>>>
  /\ UNCHANGED treeVars
  /\ UNCHANGED appVars

\* parentNode(node), lines 75-78
ParentNode(node) ==
  /\ node \in Created
  /\ op' = <<"parentNode", node, parentNode[node]>>
  /\ out' = <<>>
  /\ UNCHANGED treeVars
  /\ UNCHANGED appVars

\* nextSibling without the `index >= 0` test
nextSiblingNoIndexTest(node) ==
  IF parentNode[node] = 0 THEN 0
  ELSE LET kids == childNodes[parentNode[node]]
           index == IndexOf(kids, node)
       IN IF index + 1 <= Len(kids) THEN kids[index + 1] ELSE 0

\* lines 80-82: the value nextSibling(node) returns, 0 for null
nextSibling(node) ==
  IF parentNode[node] = 0 THEN 0
  ELSE LET kids == childNodes[parentNode[node]]
           index == IndexOf(kids, node)
       IN IF index > 0 /\ index + 1 <= Len(kids) THEN kids[index + 1] ELSE 0

\* nextSibling(node), lines 79-83
NextSibling(node) ==
  /\ node \in Created
  /\ op' = <<"nextSibling", node, nextSibling(node)>>
  /\ out' = <<>>
  /\ UNCHANGED treeVars
  /\ UNCHANGED appVars

Creates ==
  \/ \E y \in BOOLEAN, m \in BOOLEAN : CreateElement(y, m)
  \/ \E t \in Texts : CreateText(t)
  \/ \E t \in Texts : CreateComment(t)

\* the call sequences in which insert is only given unattached nodes
TreeNext ==
  \/ Creates
  \/ \E el \in NodeIds, parent \in NodeIds, anchor \in NodeIds \cup {0} :
        Attach(el, parent, anchor)
  \/ \E n \in NodeIds, uaf \in BOOLEAN : Remove(n, uaf)
  \/ \E n \in NodeIds, t \in Texts : SetElementText(n, t)

\* the same call sequences on a layout engine that goes on after a call on a
\* freed handle
QuietNext ==
  \/ Creates
  \/ \E el \in NodeIds, parent \in NodeIds, anchor \in NodeIds \cup {0} :
        Attach(el, parent, anchor)
  \/ \E n \in NodeIds : Remove(n, FALSE)
  \/ \E n \in NodeIds, t \in Texts : SetElementText(n, t)

\* the insert and remove call sequences on elements, moves included
MoveNext ==
  \/ \E y \in BOOLEAN, m \in BOOLEAN :
        FreshNode <= MaxMoveNodes /\ CreateElement(y, m)
  \/ \E el \in NodeIds, parent \in NodeIds, anchor \in NodeIds \cup {0} :
        Insert(el, parent, anchor)
  \/ \E n \in NodeIds, uaf \in BOOLEAN : Remove(n, uaf)

\* the text operations on trees of up to MaxTextNodes nodes
TextNext ==
  \/ FreshNode <= MaxTextNodes /\ Creates
  \/ \E el \in NodeIds, parent \in NodeIds, anchor \in NodeIds \cup {0} :
        Attach(el, parent, anchor)
  \/ \E n \in NodeIds : Remove(n, FALSE)
  \/ \E n \in NodeIds, t \in Texts :
        FreshNode <= MaxTextNodes /\ SetElementText(n, t)
  \/ \E n \in NodeIds, t \in Texts, bound \in BOOLEAN :
        FreshNode <= MaxTextNodes /\ SetText(n, t, bound)

\* patchProp and cloneNode on trees of up to MaxPropNodes elements, on a
\* layout engine that goes on after removeNode's calls on a freed handle
PropNext ==
  \/ \E y \in BOOLEAN :
        FreshNode <= MaxPropNodes /\ CreateElement(y, FALSE)
  \/ \E el \in NodeIds, parent \in NodeIds, anchor \in NodeIds \cup {0} :
        Attach(el, parent, anchor)
  \/ \E n \in NodeIds : Remove(n, FALSE)
  \/ \E n \in NodeIds, k \in Keys, v \in PropValues, uaf \in BOOLEAN :
        PatchProp(n, k, v, uaf)
  \/ \E n \in NodeIds : CloneNode(n)

\* the reads on trees of up to MaxReadNodes nodes; what they return depends
\* on the shape of the tree only
ReadNext ==
  \/ \E y \in BOOLEAN :
        FreshNode <= MaxReadNodes /\ CreateElement(y, FALSE)
  \/ FreshNode <= MaxReadNodes /\ CreateText("a")
  \/ \E el \in NodeIds, parent \in NodeIds, anchor \in NodeIds \cup {0} :
        Attach(el, parent, anchor)
  \/ \E n \in NodeIds, uaf \in BOOLEAN : Remove(n, uaf)
  \/ \E n \in NodeIds : NextSibling(n)
  \/ \E n \in NodeIds : ParentNode(n)

\* every adapter operation on trees of up to MaxPaintNodes nodes
AdapterNext ==
  \/ FreshNode <= MaxPaintNodes /\ CreateElement(TRUE, FALSE)
  \/ FreshNode <= MaxPaintNodes /\ CreateText("a")
  \/ FreshNode <= MaxPaintNodes /\ CreateComment("a")
  \/ \E el \in NodeIds, parent \in NodeIds : Attach(el, parent, 0)
  \/ \E n \in NodeIds : Remove(n, FALSE)
  \/ \E n \in NodeIds :
        FreshNode <= MaxPaintNodes /\ SetElementText(n, "b")
  \/ \E n \in NodeIds, bound \in BOOLEAN :
        FreshNode <= MaxPaintNodes /\ SetText(n, "b", bound)
  \/ \E n \in NodeIds : PatchProp(n, "style", "p", FALSE)
  \/ \E n \in NodeIds : CloneNode(n)
  \/ \E n \in NodeIds : NextSibling(n)
  \/ \E n \in NodeIds : ParentNode(n)

\* ------------------------------------------------------------ lifecycle
\* the part of the state the lifecycle callbacks work on, as one record;
\* trace collects the sub-steps of the call in execution order
App ==
  [intervalSet |-> intervalSet, intervalActive |-> intervalActive,
   exitListeners |-> exitListeners, isMounted |-> isMounted,
   cursorHidden |-> cursorHidden, resizeSubs |-> resizeSubs,
   logDone |-> logDone, promises |-> promises, exitPromise |-> exitPromise,
   resolveTarget |-> resolveTarget, unmountCalls |-> unmountCalls,
   prevLineCount |-> prevLineCount, out |-> <<>>, trace |-> <<>>]

SetApp(a) ==
  /\ intervalSet' = a.intervalSet
  /\ intervalActive' = a.intervalActive
  /\ exitListeners' = a.exitListeners
  /\ isMounted' = a.isMounted
  /\ cursorHidden' = a.cursorHidden
  /\ resizeSubs' = a.resizeSubs
  /\ logDone' = a.logDone
  /\ promises' = a.promises
  /\ exitPromise' = a.exitPromise
  /\ resolveTarget' = a.resolveTarget
  /\ unmountCalls' = a.unmountCalls
  /\ prevLineCount' = a.prevLineCount
  /\ out' = a.out

\* a notification that is not the clean exit (code 0, no signal)
Abnormal(code, signal) == code # 0 \/ signal # NoSignal

\* lines 257-266: the fields a TuiError carries
TuiError(code, signal) == [code |-> code, signal |-> signal]

NoError == [code |-> NullCode, signal |-> NoSignal]

\* the resolve function of promise p (0: noop); a settled promise stays as is
resolvePromise(a, p) ==
  IF p # 0 /\ a.promises[p].state = "pending"
  THEN [a EXCEPT !.promises[p] = [state |-> "resolved", error |-> NoError]]
  ELSE a

\* the reject function of promise p (0: noop)
rejectPromise(a, p, err) ==
  IF p # 0 /\ a.promises[p].state = "pending"
  THEN [a EXCEPT !.promises[p] = [state |-> "rejected", error |-> err]]
  ELSE a

\* ------------------------------------------------- terminal repaint engine
\* log.clear(): moves the cursor up by the previous line count and clears to
\* the end of the screen, resets the previous line count, writes nothing new
clearLog(a) ==
  [a EXCEPT !.out = Append(@, <<"stdout", "erase", a.prevLineCount>>),
            !.prevLineCount = 0,
            !.trace = Append(@, "log.clear")]

\* log.done(): finalizes the output, leaving the last frame visible, and
\* marks the engine as no longer accepting updates
doneLog(a) ==
  [a EXCEPT !.logDone = TRUE,
            !.trace = Append(@, "log.done")]

\* log(frameText) for a frame of the given number of lines: cursor up by the
\* previous line count and clear (not on a first frame), write the frame,
\* record its line count; a finalized engine accepts no update
updateLog(a, lines) ==
  IF a.logDone THEN a
  ELSE [a EXCEPT !.out = (IF a.prevLineCount > 0
                          THEN Append(@, <<"stdout", "erase", a.prevLineCount>>)
                          ELSE @) \o <<<<"stdout", "frame", lines>>>>,
                 !.prevLineCount = lines,
                 !.trace = Append(@, "log.update")]

\* lines 196-197: EventEmitter.off removes one subscription of onResize,
\* removeOnExitListener removes the registration when there is one
offResize(a) ==
  [a EXCEPT !.resizeSubs = IF @ > 0 THEN @ - 1 ELSE 0,
            !.trace = Append(@, "stdout.off")]

removeOnExitListener(a) ==
  [a EXCEPT !.exitListeners = 0,
            !.trace = Append(@, "removeOnExitListener")]

\* line 201: the base app's unmount
baseUnmount(a) ==
  [a EXCEPT !.isMounted = FALSE,
            !.unmountCalls = Bump(@),
            !.trace = Append(@, "unmount")]

\* newApp.unmount without the removeOnExitListener() call
unmountAppKeepsListener(a) == baseUnmount(doneLog(offResize(a)))

\* newApp.unmount without the stdout.off('resize', onResize) call
unmountAppKeepsResize(a) == baseUnmount(doneLog(removeOnExitListener(a)))

\* lines 195-202, newApp.unmount
unmountApp(a) == baseUnmount(doneLog(removeOnExitListener(offResize(a))))

\* lines 181-193, newApp.mount
mountApp(a) ==
  LET a1 == [a EXCEPT !.cursorHidden = TRUE,
                      !.trace = Append(@, "cursor.hide")]
      a2 == clearLog(a1)
  IN [a2 EXCEPT !.resizeSubs = @ + 1,
                !.isMounted = TRUE,
                !.trace = @ \o <<"stdout.on", "mount">>]

\* newApp.waitUntilExit without the `if (!exitPromise)` test
waitUntilExitAppNoMemo(a) ==
  LET p == Len(a.promises) + 1
  IN [a EXCEPT !.promises = Append(@, [state |-> "pending", error |-> NoError]),
               !.exitPromise = p,
               !.resolveTarget = p]

\* lines 207-215, newApp.waitUntilExit
waitUntilExitApp(a) ==
  IF a.exitPromise = 0
  THEN LET p == Len(a.promises) + 1
       IN [a EXCEPT !.promises = Append(@, [state |-> "pending", error |-> NoError]),
                    !.exitPromise = p,
                    !.resolveTarget = p]
  ELSE a

\* the onExit callback without the `code !== 0` test
onExitCallbackAnyCode(a0, code, signal) ==
  LET a == [a0 EXCEPT !.out = Append(@, <<"stdout", "console.log", 0>>)]
  IN
  IF a.intervalSet
  THEN LET a1 == [a EXCEPT !.intervalActive = FALSE,
                           !.trace = Append(@, "clearInterval")]
           a2 == IF signal = "SIGINT"
                 THEN [resolvePromise(a1, a1.resolveTarget) EXCEPT
                          !.trace = Append(@, "resolveExitPromise")]
                 ELSE [rejectPromise(a1, a1.resolveTarget, TuiError(code, signal))
                       EXCEPT !.trace = Append(@, "rejectExitPromise")]
           a3 == [a2 EXCEPT !.cursorHidden = FALSE,
                            !.trace = Append(@, "cursor.show")]
       IN unmountApp(a3)
  ELSE a

\* lines 222-235, the onExit callback
onExitCallback(a0, code, signal) ==
  LET a == [a0 EXCEPT !.out = Append(@, <<"stdout", "console.log", 0>>)]
  IN
  IF code # 0 /\ a.intervalSet
  THEN LET a1 == [a EXCEPT !.intervalActive = FALSE,
                           !.trace = Append(@, "clearInterval")]
           a2 == IF signal = "SIGINT"
                 THEN [resolvePromise(a1, a1.resolveTarget) EXCEPT
                          !.trace = Append(@, "resolveExitPromise")]
                 ELSE [rejectPromise(a1, a1.resolveTarget, TuiError(code, signal))
                       EXCEPT !.trace = Append(@, "rejectExitPromise")]
           a3 == [a2 EXCEPT !.cursorHidden = FALSE,
                            !.trace = Append(@, "cursor.show")]
       IN unmountApp(a3)
  ELSE a

\* the process delivering a termination notification to the registered
\* listeners
deliverExit(a, code, signal) ==
  IF a.exitListeners > 0 THEN onExitCallback(a, code, signal) ELSE a

\* lines 204-206, 217-222: the state createApp leaves behind
AppInit(waitUntilExit) ==
  /\ optWait = waitUntilExit
  /\ intervalSet = waitUntilExit
  /\ intervalActive = waitUntilExit
  /\ exitListeners = 1
  /\ isMounted = FALSE
  /\ cursorHidden = FALSE
  /\ resizeSubs = 0
  /\ logDone = FALSE
  /\ promises = <<>>
  /\ exitPromise = 0
  /\ resolveTarget = 0
  /\ returned = {}
  /\ waitCalls = 0
  /\ unmountCalls = 0
  /\ notified = 0
  /\ prevLineCount = 0

Mount ==
  /\ resizeSubs < MaxResize
  /\ SetApp(mountApp(App))
  /\ op' = <<"mount">>
  /\ UNCHANGED <<optWait, returned, waitCalls, notified>>
  /\ UNCHANGED treeVars

Unmount ==
  /\ SetApp(unmountApp(App))
  /\ op' = <<"unmount">>
  /\ UNCHANGED <<optWait, returned, waitCalls, notified>>
  /\ UNCHANGED treeVars

WaitUntilExit ==
  /\ SetApp(waitUntilExitApp(App))
  /\ returned' = returned \cup {exitPromise'}
  /\ waitCalls' = Bump(waitCalls)
  /\ op' = <<"waitUntilExit">>
  /\ UNCHANGED <<optWait, notified>>
  /\ UNCHANGED treeVars

Notify(code, signal) ==
  /\ SetApp(deliverExit(App, code, signal))
  /\ notified' = Bump(notified)
  /\ op' = <<"notify", code, signal>>
  /\ UNCHANGED <<optWait, returned, waitCalls>>
  /\ UNCHANGED treeVars

\* stdout emits 'resize': every subscription of onResize (lines 178-180) is
\* invoked once; the listener's body is empty
Resize ==
  /\ op' = <<"resize", resizeSubs>>
  /\ out' = <<>>
  /\ UNCHANGED appVars
  /\ UNCHANGED treeVars

\* the frame scheduler above this core repainting a frame of some lines
Update(lines) ==
  /\ isMounted
  /\ SetApp(updateLog(App, lines))
  /\ op' = <<"update", lines>>
  /\ UNCHANGED <<optWait, returned, waitCalls, notified>>
  /\ UNCHANGED treeVars

\* the adapter operations, mount(), unmount() and repaints
PaintNext ==
  \/ AdapterNext
  \/ Mount
  \/ Unmount
  \/ \E lines \in 0..MaxLines : Update(lines)

\* an abnormal termination notification
AbnormalNotify ==
  \E n \in Notifications : Abnormal(n[1], n[2]) /\ Notify(n[1], n[2])

AppNext ==
  \/ Mount
  \/ Unmount
  \/ WaitUntilExit
  \/ \E n \in Notifications : Notify(n[1], n[2])
  \/ Resize

\* ------------------------------------------------------------ properties
\* position of the first event of trace t with the given name about node n
EventAt(t, name, n) ==
  LET k == IF name \in {"removeChild", "splice"} THEN 3 ELSE 2
      hits == {i \in 1..Len(t) : t[i][1] = name /\ t[i][k] = n}
  IN IF hits = {} THEN 0
     ELSE CHOOSE i \in hits : \A j \in hits : i <= j

\* the trace of the remove call that made the step
RemoveTrace(n) == removeNode(Dom(op'[3]), n).trace

C2_RemoveClearsSubtree ==
  [][\A n \in NodeIds :
       (op'[1] = "remove" /\ op'[2] = n /\ ~op'[3] /\ IsElement(n)) =>
         LET desc == Descendants(childNodes, n)
             t == RemoveTrace(n)
         IN /\ childNodes'[n] = <<>>
            /\ \A d \in desc : parentNode'[d] = 0 /\ childNodes'[d] = <<>>
            /\ \A d \in desc : \A a \in desc \cup {n} :
                 (d \in Descendants(childNodes, a) /\ EventAt(t, "detach", a) > 0)
                   => /\ EventAt(t, "detach", d) > 0
                      /\ EventAt(t, "detach", d) < EventAt(t, "detach", a)]_vars

\* C3: a second remove(node) right after a remove(node) that returned does
\* not fail and leaves child sequences, parent references and the set of
\* freed layout handles as they were
C3_RemoveIdempotent ==
  [][\A n \in NodeIds :
       (op[1] = "remove" /\ op[2] = n /\ ~op[3] /\ op'[1] = "remove" /\ op'[2] = n)
         => /\ ~op'[3]
            /\ childNodes' = childNodes
            /\ parentNode' = parentNode
            /\ yFreed' = yFreed]_vars

\* C4: the children of the layout handle of an element are the layout handles
\* of its children that own one, in the same order
C4_LayoutMirror ==
  \A n \in Created :
    (IsElement(n) /\ yogaNode[n] # 0) =>
      yChildren[yogaNode[n]] =
        SelectSeq(childNodes[n], LAMBDA c : yogaNode[c] # 0)

\* C5: remove(node) of a node owning a layout handle, with or without a
\* parent, releases the handle: removeChild on the parent's handle (when it
\* has one), then unsetMeasureFunc, then freeRecursive, all before the parent
\* reference is cleared
C5_RemoveReleasesHandle ==
  [][\A n \in NodeIds :
       (op'[1] = "remove" /\ op'[2] = n /\ ~op'[3] /\ yogaNode[n] # 0) =>
         LET t == RemoveTrace(n)
             p == parentNode[n]
             unset == EventAt(t, "unsetMeasureFunc", n)
             free == EventAt(t, "freeRecursive", n)
         IN /\ n \in yFreed' /\ n \notin yMeasure'
            /\ (p # 0 /\ yogaNode[p] # 0) =>
                 /\ EventAt(t, "removeChild", n) > 0
                 /\ EventAt(t, "removeChild", n) < unset
            /\ 0 < unset /\ unset < free
            /\ p # 0 => free < EventAt(t, "detach", n)]_vars

Settled(p) == promises[p].state # "pending"

\* C6: with the exit listener registered and the handle obtained before, a
\* SIGINT notification resolves the handle and any other abnormal one rejects
\* it with a TuiError carrying the notified code and signal
C6_ExitSettlesHandle ==
  [][\A x \in Notifications :
       (op'[1] = "notify" /\ op'[2] = x[1] /\ op'[3] = x[2] /\ Abnormal(x[1], x[2])
        /\ exitListeners > 0 /\ exitPromise # 0) =>
          IF x[2] = "SIGINT"
          THEN promises'[exitPromise].state = "resolved"
          ELSE promises'[exitPromise] =
                 [state |-> "rejected", error |-> TuiError(x[1], x[2])]]_vars

\* C7: a notification with code 0 and no signal changes nothing: the handle,
\* the cursor, the mount state, the keep-alive timer and the listeners stay
C7_CleanExitChangesNothing ==
  [][(op'[1] = "notify" /\ op'[2] = 0 /\ op'[3] = NoSignal) =>
       UNCHANGED <<promises, exitPromise, resolveTarget, cursorHidden, isMounted,
                   unmountCalls, logDone, intervalSet, intervalActive,
                   exitListeners, resizeSubs>>]_vars

C7_Witness ==
  /\ op[1] = "notify" /\ op[2] = 0 /\ op[3] = NoSignal
  /\ exitListeners = 1 /\ isMounted /\ cursorHidden /\ intervalActive
  /\ exitPromise # 0 /\ ~Settled(exitPromise)

\* C8: on an abnormal notification the cursor is shown and unmount() is
\* invoked before the handle is settled
C8_RestoreBeforeSettle ==
  [][\A x \in Notifications :
       (op'[1] = "notify" /\ op'[2] = x[1] /\ op'[3] = x[2] /\ Abnormal(x[1], x[2])
        /\ exitListeners > 0 /\ exitPromise # 0) =>
          LET t == onExitCallback(App, x[1], x[2]).trace
              settle == IF x[2] = "SIGINT" THEN "resolveExitPromise"
                        ELSE "rejectExitPromise"
          IN /\ Pos(t, settle) > 0
             /\ Precedes(t, "cursor.show", settle)
             /\ Precedes(t, "unmount", settle)]_vars

\* C9: at most one exit-wait handle is ever created, every waitUntilExit()
\* call returns that one handle, and a waitUntilExit() call settles nothing
C9_SingleExitHandle ==
  [][/\ Len(promises') <= 1
     /\ Cardinality(returned') <= 1
     /\ op'[1] = "waitUntilExit" =>
          /\ returned' = {exitPromise'}
          /\ \A p \in 1..Len(promises) : promises'[p] = promises[p]
          /\ \A p \in 1..Len(promises') : p > Len(promises) => ~Settled(p)']_vars

C9_Witness ==
  /\ op[1] = "waitUntilExit" /\ waitCalls = MaxCount
  /\ returned = {1} /\ Len(promises) = 1
  /\ unmountCalls > 0 /\ notified > 0

\* C10: unmount() deregisters the exit listener, again and again; once it was
\* called a termination notification runs no handler, settles nothing and
\* unmounts nothing; there is never more than one exit listener
C10_UnmountIdempotent ==
  [][/\ exitListeners <= 1 /\ exitListeners' <= 1
     /\ op'[1] = "unmount" =>
          /\ exitListeners' = 0
          /\ unmountCalls > 0 => exitListeners' = exitListeners
     /\ (op'[1] = "notify" /\ unmountCalls > 0) =>
          UNCHANGED <<promises, exitPromise, resolveTarget, cursorHidden,
                      isMounted, unmountCalls, logDone, intervalSet,
                      intervalActive, exitListeners, resizeSubs>>]_vars

C10_Witness ==
  /\ op[1] = "notify" /\ op[2] = 1
  /\ unmountCalls = MaxCount /\ exitListeners = 0
  /\ exitPromise # 0 /\ Settled(exitPromise)

\* the resize listener has one subscription when the app is mounted and none
\* when it is not
SubscribedIffMounted == resizeSubs = IF isMounted THEN 1 ELSE 0

\* C11 (as stated): the resize listener is subscribed exactly while the app
\* is mounted, and a resize notification while the app is not mounted invokes
\* no listener
C11_ResizeWhileMounted ==
  /\ (resizeSubs > 0) <=> isMounted
  /\ (op[1] = "resize" /\ ~isMounted) => op[2] = 0

\* C11 (amended): as long as mount() is not called on an app that is mounted,
\* mount() subscribes the resize listener once, unmount() (by the embedder or
\* by the termination handler) leaves no subscription, and a resize
\* notification invokes the listener once when mounted and not at all otherwise
C11_ResizeWhileMountedOnce ==
  [][(SubscribedIffMounted /\ ~(op'[1] = "mount" /\ isMounted)) =>
       /\ SubscribedIffMounted'
       /\ op'[1] = "mount" => resizeSubs' = 1
       /\ op'[1] = "unmount" => resizeSubs' = 0
       /\ op'[1] = "resize" => op'[2] = (IF isMounted THEN 1 ELSE 0)]_vars

C11_Witness ==
  /\ op[1] = "resize" /\ op[2] = 0
  /\ unmountCalls > 0 /\ ~isMounted /\ cursorHidden /\ resizeSubs = 0

\* the operations of the renderer host adapter
AdapterOps ==
  {"patchProp", "insert", "remove", "createElement", "createText",
   "createComment", "parentNode", "nextSibling", "setElementText", "setText",
   "cloneNode"}

\* the writes of a call that went to the output stream
StdoutWrites(o) == SelectSeq(o, LAMBDA w : w[1] = "stdout")

\* C12: no adapter operation writes to the output stream or changes the
\* repaint engine's state (previous line count, finalized flag); of the
\* operations of this core only mount() (clear: the line count is reset) and
\* unmount() (done: the engine is finalized) touch the repaint engine
C12_AdapterNeverRepaints ==
  [][/\ op'[1] \in AdapterOps =>
          /\ StdoutWrites(out') = <<>>
          /\ UNCHANGED <<prevLineCount, logDone>>
     /\ (op'[1] # "update" /\ (prevLineCount' # prevLineCount \/ logDone' # logDone))
          => op'[1] \in {"mount", "unmount"}
     /\ op'[1] = "mount" => prevLineCount' = 0 /\ StdoutWrites(out') # <<>>
     /\ op'[1] = "unmount" => logDone']_vars

C12_Witness ==
  /\ op[1] = "setText" /\ out # <<>>
  /\ isMounted /\ prevLineCount > 0 /\ ~logDone

\* the direct text children of element n
TextKids(kids, n) == {i \in 1..Len(kids[n]) : nodeName[kids[n][i]] = "#text"}

\* what setElementText(n, t) is to do: with a direct text child, the value
\* of a text child is replaced and nothing else changes; without one, one
\* fresh text node holding t becomes the last child of n
ElementTextEffect(n, t) ==
  IF TextKids(childNodes, n) # {}
  THEN /\ \E i \in TextKids(childNodes, n) :
            nodeValue' = [nodeValue EXCEPT ![childNodes[n][i]] = t]
       /\ UNCHANGED <<nodeName, parentNode, childNodes, yogaNode, yChildren>>
  ELSE \E f \in NodeIds :
         /\ nodeName[f] = ""
         /\ nodeName' = [nodeName EXCEPT ![f] = "#text"]
         /\ nodeValue' = [nodeValue EXCEPT ![f] = t]
         /\ childNodes' = [childNodes EXCEPT ![n] = Append(@, f)]
         /\ parentNode' = [parentNode EXCEPT ![f] = n]
         /\ UNCHANGED <<yogaNode, yChildren>>

\* C13: setText on a text or comment node replaces its value and changes
\* nothing else; setText on an element has the effect of setElementText;
\* neither raises an error to the caller; setElementText never leaves an
\* element that had at most one direct text child with more than one
C13_SetTextContract ==
  [][\A n \in NodeIds, t \in Texts :
       /\ (op'[1] = "setText" /\ op'[2] = n /\ op'[4] = t) =>
            /\ ~op'[3]
            /\ IF IsElement(n)
               THEN ElementTextEffect(n, t)
               ELSE /\ nodeValue' = [nodeValue EXCEPT ![n] = t]
                    /\ UNCHANGED <<nodeName, parentNode, childNodes, yogaNode,
                                   yChildren, yFreed, yMeasure, propVars>>
       /\ (op'[1] = "setElementText" /\ op'[2] = n /\ op'[3] = t) =>
            /\ ElementTextEffect(n, t)
            /\ Cardinality(TextKids(childNodes, n)) <= 1
                 => Cardinality(TextKids(childNodes', n)) <= 1]_vars

\* C14: patchProp updates exactly one named property: key 'style' stores
\* next as the node's style and applies it to the node's layout handle when
\* the node owns a handle (one that was not freed); the transform key stores
\* next as the node's transform; any other key leaves the node unchanged.
\* Parent references, child sequences and the layout topology never change,
\* and cloneNode returns the same node with no state change
C14_PatchPropFrame ==
  [][\A n \in NodeIds, k \in Keys, v \in PropValues :
       /\ (op'[1] = "patchProp" /\ op'[2] = n /\ op'[3] = k /\ op'[4] = v) =>
            /\ UNCHANGED <<nodeName, nodeValue, parentNode, childNodes,
                           yogaNode, yChildren, yFreed, yMeasure>>
            /\ k = "style" =>
                 /\ style' = [style EXCEPT ![n] = v]
                 /\ internal_transform' = internal_transform
                 /\ (yogaNode[n] # 0 /\ yogaNode[n] \notin yFreed) =>
                      yStyle' = [yStyle EXCEPT ![yogaNode[n]] = v]
                 /\ yogaNode[n] = 0 => yStyle' = yStyle
                 /\ \A h \in NodeIds : h # yogaNode[n] => yStyle'[h] = yStyle[h]
            /\ k = "internal_transform" =>
                 /\ internal_transform' = [internal_transform EXCEPT ![n] = v]
                 /\ UNCHANGED <<style, yStyle>>
            /\ k \notin {"style", "internal_transform"} => UNCHANGED propVars
       /\ (op'[1] = "cloneNode" /\ op'[2] = n) =>
            /\ op'[3] = n
            /\ UNCHANGED treeVars]_vars

C14_Witness ==
  /\ op[1] = "patchProp" /\ op[3] = "style" /\ op[4] = "q"
  /\ parentNode[op[2]] = Root /\ yogaNode[op[2]] # 0
  /\ yStyle[op[2]] = "q" /\ style[op[2]] = "q"
  /\ internal_transform[op[2]] = "p"

\* C15: whatever the waitUntilExit construction option, an abnormal
\* notification delivered to the registered listener settles a handle
\* obtained before (resolved on SIGINT, rejected otherwise), shows the cursor
\* and invokes unmount(); the option only decides whether the keep-alive
\* timer exists
C15_OptionIndependent ==
  [][/\ intervalSet = optWait
     /\ \A x \in Notifications :
          (op'[1] = "notify" /\ op'[2] = x[1] /\ op'[3] = x[2]
           /\ Abnormal(x[1], x[2]) /\ exitListeners > 0 /\ exitPromise # 0) =>
             /\ promises'[exitPromise].state =
                  (IF x[2] = "SIGINT" THEN "resolved" ELSE "rejected")
             /\ ~cursorHidden'
             /\ ~isMounted' /\ logDone' /\ exitListeners' = 0]_vars

\* the layout engine calls removeNode makes
YogaCalls == {"removeChild", "unsetMeasureFunc", "freeRecursive"}

\* C16: no remove call applies removeChild, unsetMeasureFunc or
\* freeRecursive to a layout handle that was freed (so none is freed twice),
\* and a remove call leaves no node in a child sequence whose layout handle
\* it freed
C16_NoUseAfterFree ==
  [][\A n \in NodeIds :
       (op'[1] = "remove" /\ op'[2] = n) =>
         LET t == RemoveTrace(n)
         IN /\ \A i \in 1..Len(t) : t[i][1] \in YogaCalls => ~t[i][Len(t[i])]
            /\ \A p \in NodeIds : \A i \in 1..Len(childNodes'[p]) :
                 LET c == childNodes'[p][i]
                 IN yogaNode'[c] # 0 => yogaNode'[c] \notin yFreed' \ yFreed]_vars

\* the body of the termination handler has run: only line 225 stops the
\* keep-alive timer
HandlerRan == intervalSet /\ ~intervalActive

ExitSettled == exitPromise # 0 /\ Settled(exitPromise)

\* C17: once the termination handler has run for an abnormal notification,
\* an exit-wait handle, whenever it was requested, is eventually resolved or
\* rejected; and a settled handle never changes again
C17_LateHandleSettled ==
  /\ (HandlerRan /\ exitPromise # 0) ~> ExitSettled
  /\ [][\A p \in 1..Len(promises) : Settled(p) => promises'[p] = promises[p]]_vars

\* C18: once unmount() has completed the keep-alive timer is cleared: in no
\* state is the app unmounted, its exit listener deregistered and the
\* keep-alive timer still active
C18_TimerClearedAfterUnmount ==
  (unmountCalls > 0 /\ ~isMounted /\ exitListeners = 0) => ~intervalActive

\* C19: the cursor is hidden only while the app is mounted: mount() hides
\* it and after unmount() it is visible again
C19_CursorHiddenOnlyWhileMounted ==
  /\ cursorHidden => isMounted
  /\ op[1] = "mount" => cursorHidden

\* C20: nextSibling(node) changes nothing and returns the child after node
\* in its parent's child sequence, and null (0) when node has no parent, is
\* not in the parent's child sequence or is the last child; right after a
\* remove(node) that returned it returns null
C20_NextSibling ==
  [][\A n \in NodeIds :
       /\ (op'[1] = "nextSibling" /\ op'[2] = n) =>
            /\ UNCHANGED <<treeVars, appVars>>
            /\ out' = <<>>
            /\ IF parentNode[n] = 0 THEN op'[3] = 0
               ELSE LET kids == childNodes[parentNode[n]]
                    IN /\ (\A i \in 1..Len(kids) : kids[i] # n) => op'[3] = 0
                       /\ \A i \in 1..Len(kids) :
                            kids[i] = n =>
                              op'[3] = (IF i < Len(kids) THEN kids[i + 1] ELSE 0)
       /\ (op[1] = "remove" /\ op[2] = n /\ ~op[3]
           /\ op'[1] = "nextSibling" /\ op'[2] = n) => op'[3] = 0]_vars

C20_Witness ==
  /\ op[1] = "nextSibling" /\ op[3] # 0
  /\ parentNode[op[2]] = Root /\ childNodes[Root] = <<op[2], op[3]>>

Init == TreeInit /\ AppInit(TRUE)

AppSpecInit == TreeInit /\ \E o \in BOOLEAN : AppInit(o)

Spec == Init /\ [][TreeNext]_vars

SpecQuiet == Init /\ [][QuietNext]_vars

SpecMove == Init /\ [][MoveNext]_vars

SpecApp == AppSpecInit /\ [][AppNext]_vars

SpecAppDefault == Init /\ [][AppNext]_vars

\* the default app in a process where abnormal termination notifications
\* keep being delivered
SpecAppLive == Init /\ [][AppNext]_vars /\ WF_vars(AbnormalNotify)

SpecText == Init /\ [][TextNext]_vars

SpecProp == Init /\ [][PropNext]_vars

SpecRead == Init /\ [][ReadNext]_vars

SpecPaint == Init /\ [][PaintNext]_vars

====
